---- MODULE Spec2Model ----
(***************************************************************************)
(* Model of the survey cleaning pipeline of Cleanup.py: clean_dataset      *)
(* (deduplicate, lower-case labels, parse salary, default bonus, enforce   *)
(* required fields, trim 3-sigma outliers, canonicalize currency, other    *)
(* currency and country) and the __main__ block that partitions the        *)
(* cleaned table by currency and writes one file per partition plus the    *)
(* complete table.                                                         *)
(*                                                                         *)
(* A second specification, SpecAnalytics, models the menu session of       *)
(* Analytics.py: a choice of analysis, the selection of a data set, the    *)
(* analysis itself and save_last_result, over directories of files as the  *)
(* cleaning pipeline writes them.  Exchange rates are integers, scaled by  *)
(* RateScale.                                                              *)
(*                                                                         *)
(* Text is a sequence of one-character strings, so that strip, upper,      *)
(* lower, title and the alias lookups are computed character by character. *)
(* A cell is one of  [nan |-> TRUE]  (pandas NaN),  [str |-> text]  and    *)
(* [num |-> n].  Numbers are integers; the mean / standard deviation test  *)
(* of the outlier stage is evaluated exactly on cross-multiplied integers. *)
(***************************************************************************)
EXTENDS Integers, Sequences, FiniteSets, TLC

VARIABLES
  pc,         \* position in clean_dataset / __main__
  run,        \* 1: first run on data.csv; 2: a run on the first run's output
  data,       \* the input file of the run: [cols |-> labels, rows |-> rows]
  df,         \* the table: [cols |-> df.columns, rows |-> the rows, each
              \* a sequence of cells aligned with cols]
  removed,    \* the three printed counts: [dup, req, out]
  currencies, \* __main__: the sorted list of distinct currency values
  k,          \* __main__: number of currencies of the loop already handled
  files,      \* the file system: file name (text) -> [cols, rows]
  failed,     \* file names whose to_csv raised
  txt,        \* a free-text cell and its three canonical forms
  analytics,  \* the SalaryAnalytics object: [current_df, current_currency,
              \* last_result]
  reports,    \* the files the analyses wrote: path -> content
  clock,      \* datetime.now(), in seconds
  call        \* the latest call of run_analysis_with_dataset, as observed

\* the state of the interactive analysis session
session == <<analytics, reports, clock, call>>

vars ==
  <<pc, run, data, df, removed, currencies, k, files, failed, txt,
    analytics, reports, clock, call>>

-----------------------------------------------------------------------------
(* Bounds of the model *)

\* longest input table drawn from RowDomain
MaxRows == 2

\* longest free text drawn from TextAlphabet in the text specification
MaxTextLen == 3

-----------------------------------------------------------------------------
(* Characters and Python's str methods *)

Uppers == <<"A","B","C","D","E","F","G","H","I","J","K","L","M",
            "N","O","P","Q","R","S","T","U","V","W","X","Y","Z">>
Lowers == <<"a","b","c","d","e","f","g","h","i","j","k","l","m",
            "n","o","p","q","r","s","t","u","v","w","x","y","z">>
Digits == <<"0","1","2","3","4","5","6","7","8","9">>

\* the characters of the model in code-point order (what sorted() compares)
AsciiOrder == <<"\t", " ", "$", "(", ")", ",", "-", ".", "/">> \o Digits
              \o Uppers \o <<"\\", "_">> \o Lowers

Range(s) == {s[i] : i \in DOMAIN s}

IndexOf(s, c) == CHOOSE i \in DOMAIN s : s[i] = c

UpperSet == Range(Uppers)
LowerSet == Range(Lowers)
DigitSet == Range(Digits)

IsUpper(c) == c \in UpperSet
IsLower(c) == c \in LowerSet
IsCased(c) == IsUpper(c) \/ IsLower(c)
IsDigit(c) == c \in DigitSet
IsSpace(c) == c \in {" ", "\t"}

LowerChar(c) == IF IsUpper(c) THEN Lowers[IndexOf(Uppers, c)] ELSE c
UpperChar(c) == IF IsLower(c) THEN Uppers[IndexOf(Lowers, c)] ELSE c

\* str.lower() / str.upper()
Lower(s) == [i \in DOMAIN s |-> LowerChar(s[i])]
Upper(s) == [i \in DOMAIN s |-> UpperChar(s[i])]

\* str.strip(): drop leading and trailing whitespace
RECURSIVE LStrip(_)
LStrip(s) == IF s # <<>> /\ IsSpace(Head(s)) THEN LStrip(Tail(s)) ELSE s

RECURSIVE RStrip(_)
RStrip(s) == IF s # <<>> /\ IsSpace(s[Len(s)])
             THEN RStrip(SubSeq(s, 1, Len(s) - 1)) ELSE s

Strip(s) == RStrip(LStrip(s))

\* str.replace(old, '') for a one-character old
RemoveChar(s, c) == SelectSeq(s, LAMBDA x : x # c)

\* str.replace(old, new) for one-character old and new
ReplaceChar(s, old, new) == [i \in DOMAIN s |-> IF s[i] = old THEN new ELSE s[i]]

\* re.sub(r'\s+', ' ', s): every maximal run of whitespace becomes one space
RECURSIVE CollapseWs(_)
CollapseWs(s) ==
  IF s = <<>> THEN <<>>
  ELSE IF IsSpace(Head(s))
       THEN <<" ">> \o CollapseWs(LStrip(s))
       ELSE <<Head(s)>> \o CollapseWs(Tail(s))

\* str.title(): a cased character is upper-cased when the previous character
\* is not cased and lower-cased when it is
Title(s) ==
  [i \in DOMAIN s |->
     IF i > 1 /\ IsCased(s[i - 1]) THEN LowerChar(s[i]) ELSE UpperChar(s[i])]

\* the order of sorted() on str: code points, a proper prefix first
Code(c) == IndexOf(AsciiOrder, c)

RECURSIVE TextLess(_, _)
TextLess(a, b) ==
  IF b = <<>> THEN FALSE
  ELSE IF a = <<>> THEN TRUE
  ELSE IF Head(a) = Head(b) THEN TextLess(Tail(a), Tail(b))
  ELSE Code(Head(a)) < Code(Head(b))

\* dict.get(key, default) on a table of <<key, value>> pairs
HasKey(table, key) == \E i \in DOMAIN table : table[i][1] = key
Get(table, key, default) ==
  IF HasKey(table, key)
  THEN table[CHOOSE i \in DOMAIN table : table[i][1] = key][2]
  ELSE default

-----------------------------------------------------------------------------
(* Cells, numbers and tables *)

NaN == [nan |-> TRUE]
Str(t) == [str |-> t]
Num(n) == [num |-> n]

IsNaN(c) == "nan" \in DOMAIN c
IsStr(c) == "str" \in DOMAIN c
IsNum(c) == "num" \in DOMAIN c

\* decimal digits of a natural number
RECURSIVE NatToText(_)
NatToText(n) ==
  IF n < 10 THEN <<Digits[n + 1]>>
  ELSE NatToText(n \div 10) \o <<Digits[(n % 10) + 1]>>

\* str(x) of a number
IntToText(n) == IF n < 0 THEN <<"-">> \o NatToText(0 - n) ELSE NatToText(n)

\* Series.astype(str) on one cell
AsStr(c) ==
  IF IsStr(c) THEN c.str
  ELSE IF IsNum(c) THEN IntToText(c.num)
  ELSE <<"n", "a", "n">>

RECURSIVE DigitsValue(_)
DigitsValue(s) ==
  IF s = <<>> THEN 0
  ELSE 10 * DigitsValue(SubSeq(s, 1, Len(s) - 1)) + (IndexOf(Digits, s[Len(s)]) - 1)

AllDigits(s) == s # <<>> /\ \A i \in DOMAIN s : IsDigit(s[i])

\* pd.to_numeric(text, errors='coerce') for integer literals: an optional
\* minus sign and decimal digits; any other text is coerced to NaN
ToNumeric(s) ==
  IF AllDigits(s) THEN Num(DigitsValue(s))
  ELSE IF s # <<>> /\ Head(s) = "-" /\ AllDigits(Tail(s))
       THEN Num(0 - DigitsValue(Tail(s)))
       ELSE NaN

\* Series.str.strip() / .str.upper() / .str.replace(r'\s+', ' ', regex=True)
\* on one cell: NaN for a cell that is not a string
StrStrip(c) == IF IsStr(c) THEN Str(Strip(c.str)) ELSE NaN
StrUpper(c) == IF IsStr(c) THEN Str(Upper(c.str)) ELSE NaN
StrCollapseWs(c) == IF IsStr(c) THEN Str(CollapseWs(c.str)) ELSE NaN

HasCol(T, label) == \E i \in DOMAIN T.cols : T.cols[i] = label
ColIdx(T, label) == CHOOSE i \in DOMAIN T.cols : T.cols[i] = label
Cell(T, row, label) == row[ColIdx(T, label)]

\* the cells of one column, top to bottom
Column(T, label) == [r \in DOMAIN T.rows |-> Cell(T, T.rows[r], label)]

\* df[label] = values
SetColumn(T, label, values) ==
  [T EXCEPT !.rows =
     [r \in DOMAIN T.rows |-> [T.rows[r] EXCEPT ![ColIdx(T, label)] = values[r]]]]

\* rows[mask]: the rows whose mask entry is TRUE, in order
RECURSIVE SelectByMask(_, _)
SelectByMask(rows, mask) ==
  IF rows = <<>> THEN <<>>
  ELSE LET rest == SelectByMask(Tail(rows), Tail(mask))
       IN  IF Head(mask) THEN <<Head(rows)>> \o rest ELSE rest

\* df = df[mask]
FilterRows(T, mask) == [T EXCEPT !.rows = SelectByMask(T.rows, mask)]

-----------------------------------------------------------------------------
(* The column labels clean_dataset reads, lower-cased as in the source.  The  *)
(* parenthesised remainder of the two long survey questions is elided.    *)

age_col == "how old are you?"
job_col == "job title"
salary_col == "what is your annual salary? (...)"
bonus_col == "how much additional monetary compensation do you get, if any (...)?"
currency_col == "please indicate the currency"
other_currency_col == "if \"other,\" please indicate the currency here: "
country_col == "what country do you work in?"

required_fields == <<age_col, job_col, salary_col, currency_col, country_col>>

\* the labels as the survey export capitalises them
RawLabels ==
  [age    |-> "How old are you?",
   job    |-> "Job title",
   salary |-> "What is your annual salary? (...)",
   bonus  |-> "How much additional monetary compensation do you get, if any (...)?",
   currency |-> "Please indicate the currency",
   other  |-> "If \"Other,\" please indicate the currency here: ",
   country |-> "What country do you work in?"]

LowerLabels ==
  [age |-> age_col, job |-> job_col, salary |-> salary_col, bonus |-> bonus_col,
   currency |-> currency_col, other |-> other_currency_col, country |-> country_col]

Fields == <<"age", "job", "salary", "currency", "other", "country", "bonus">>

\* col.lower() of a column label
LowerLabel(label) ==
  IF \E f \in Range(Fields) : RawLabels[f] = label
  THEN LowerLabels[CHOOSE f \in Range(Fields) : RawLabels[f] = label]
  ELSE label

-----------------------------------------------------------------------------
(* The stages of clean_dataset, each a function of the table *)

\* df.drop_duplicates(): a row equal in every column to an earlier row is
\* dropped (NaN equals NaN), the first occurrence and the order are kept
\* (mutant) keep='last': the last occurrence of a duplicated row is kept
RECURSIVE KeepLast(_)
KeepLast(rows) ==
  IF rows = <<>> THEN <<>>
  ELSE IF Head(rows) \in Range(Tail(rows)) THEN KeepLast(Tail(rows))
       ELSE <<Head(rows)>> \o KeepLast(Tail(rows))

RECURSIVE KeepFirst(_)
KeepFirst(rows) ==
  IF rows = <<>> THEN <<>>
  ELSE LET init == KeepFirst(SubSeq(rows, 1, Len(rows) - 1))
           last == rows[Len(rows)]
       IN  IF last \in Range(init) THEN init ELSE Append(init, last)

DropDuplicates(T) == [T EXCEPT !.rows = KeepFirst(T.rows)]

LowerColumns(T) == [T EXCEPT !.cols = [i \in DOMAIN T.cols |-> LowerLabel(T.cols[i])]]

SalaryValue(c) == ToNumeric(RemoveChar(AsStr(c), ","))

SalaryToNumeric(T) ==
  IF HasCol(T, salary_col)
  THEN SetColumn(T, salary_col,
                 [r \in DOMAIN T.rows |-> SalaryValue(Column(T, salary_col)[r])])
  ELSE T

\* Series.fillna(0) on one cell
BonusValue(c) == IF IsNaN(c) THEN Num(0) ELSE c

BonusFillna(T) ==
  IF HasCol(T, bonus_col)
  THEN SetColumn(T, bonus_col,
                 [r \in DOMAIN T.rows |-> BonusValue(Column(T, bonus_col)[r])])
  ELSE T

\* (mutant) a salary of 0 passes
SalaryOkZero(c) == IsNum(c) /\ c.num >= 0

\* notna() & (x > 0)
SalaryOk(c) == IsNum(c) /\ c.num > 0

\* notna() & (astype(str).str.strip() != '')
TextOk(c) == ~IsNaN(c) /\ Strip(AsStr(c)) # <<>>

RequiredField(T, field) ==
  IF ~HasCol(T, field) THEN T
  ELSE IF field = salary_col
       THEN FilterRows(T, [r \in DOMAIN T.rows |-> SalaryOk(Column(T, field)[r])])
       ELSE FilterRows(T, [r \in DOMAIN T.rows |-> TextOk(Column(T, field)[r])])

\* the loop over required_fields, one filter after the other
RECURSIVE RequiredFrom(_, _)
RequiredFrom(T, i) ==
  IF i > Len(required_fields) THEN T
  ELSE RequiredFrom(RequiredField(T, required_fields[i]), i + 1)

RequiredFields(T) == RequiredFrom(T, 1)

RECURSIVE SumSeq(_)
SumSeq(s) == IF s = <<>> THEN 0 ELSE Head(s) + SumSeq(Tail(s))

Salaries(T) == [r \in DOMAIN T.rows |-> Column(T, salary_col)[r].num]

\* the multiple of the standard deviation kept on each side of the mean
SigmaK == 3

\* Series.std() is the sample (n - 1) deviation: NaN for fewer than two values
StdDefined(n) == n >= 2

\* (mutant) two standard deviations instead of three
WithinTwo(n, S, Q, x) ==
  (n * x - S) * (n * x - S) * (n - 1) <= 4 * n * (n * Q - S * S)

\* With n values of sum S and sum of squares Q:  mean = S / n  and
\* std^2 = (n*Q - S*S) / (n*(n - 1)).  For d = n*x - S,
\*   x <= mean + K*std  <=>  d <= 0 \/ d*d*(n - 1) <= K*K*n*(n*Q - S*S)
\*   x >= mean - K*std  <=>  d >= 0 \/ d*d*(n - 1) <= K*K*n*(n*Q - S*S)
\* A comparison with NaN (std of fewer than two values) is False, and
\* max(0, NaN) is 0.
WithinK(n, S, Q, x) ==
  (n * x - S) * (n * x - S) * (n - 1) <= SigmaK * SigmaK * n * (n * Q - S * S)

LeUpper(n, S, Q, x) == StdDefined(n) /\ (n * x - S <= 0 \/ WithinK(n, S, Q, x))

GeLower(n, S, Q, x) == ~StdDefined(n) \/ n * x - S >= 0 \/ WithinK(n, S, Q, x)

\* (x >= max(0, lower_limit)) & (x <= upper_limit)
KeepSalary(n, S, Q, x) == x >= 0 /\ GeLower(n, S, Q, x) /\ LeUpper(n, S, Q, x)

RemoveOutliers(T) ==
  IF ~HasCol(T, salary_col) THEN T
  ELSE LET xs == Salaries(T)
           n  == Len(xs)
           S  == SumSeq(xs)
           Q  == SumSeq([i \in DOMAIN xs |-> xs[i] * xs[i]])
       IN  FilterRows(T, [r \in DOMAIN xs |-> KeepSalary(n, S, Q, xs[r])])

-----------------------------------------------------------------------------
(* The alias tables of the source, as <<key, value>> pairs *)

currency_mapping ==
  <<
    <<<<"U","S">>, <<"U","S","D">>>>,
    <<<<"D","O","L","L","A","R","S">>, <<"U","S","D">>>>,
    <<<<"U","S"," ","D","O","L","L","A","R">>, <<"U","S","D">>>>,
    <<<<"P","O","U","N","D">>, <<"G","B","P">>>>,
    <<<<"P","O","U","N","D","S">>, <<"G","B","P">>>>
  >>

\* (the two keys of the source spelled with a non-ASCII letter are left out)
other_currency_mapping_lower ==
  <<
    <<<<"p","h","i","l","i","p","p","i","n","e"," ","p","e","s","o">>, <<"P","H","P">>>>,
    <<<<"p","h","i","l","i","p","p","i","n","e"," ","p","e","s","o","s">>, <<"P","H","P">>>>,
    <<<<"p","h","p"," ","(","p","h","i","l","i","p","p","i","n","e"," ","p","e","s","o",")">>, <<"P","H","P">>>>,
    <<<<"p","h","p"," ","p","h","i","l","i","p","p","i","n","e"," ","p","e","s","o">>, <<"P","H","P">>>>,
    <<<<"i","n","d","i","a","n"," ","r","u","p","e","e","s">>, <<"I","N","R">>>>,
    <<<<"i","n","d","i","a","n"," ","r","u","p","e","e">>, <<"I","N","R">>>>,
    <<<<"r","u","p","e","e","s">>, <<"I","N","R">>>>,
    <<<<"i","n","r"," ","(","i","n","d","i","a","n"," ","r","u","p","e","e",")">>, <<"I","N","R">>>>,
    <<<<"m","e","x","i","c","a","n"," ","p","e","s","o">>, <<"M","X","N">>>>,
    <<<<"m","e","x","i","c","a","n"," ","p","e","s","o","s">>, <<"M","X","N">>>>,
    <<<<"p","e","s","o"," ","m","e","x","i","c","a","n","o">>, <<"M","X","N">>>>,
    <<<<"n","o","r","w","e","g","i","a","n"," ","k","r","o","n","e","r">>, <<"N","O","K">>>>,
    <<<<"n","o","r","w","e","g","i","a","n"," ","k","r","o","n","e","r"," ","(","n","o","k",")">>, <<"N","O","K">>>>,
    <<<<"p","o","l","i","s","h"," ","z","l","o","t","y">>, <<"P","L","N">>>>,
    <<<<"p","l","n"," ","(","p","o","l","i","s","h"," ","z","l","o","t","y",")">>, <<"P","L","N">>>>,
    <<<<"p","l","n"," ","(","z","w","o","t","y",")">>, <<"P","L","N">>>>,
    <<<<"z","l","o","t","y">>, <<"P","L","N">>>>,
    <<<<"a","m","e","r","i","c","a","n"," ","d","o","l","l","a","r","s">>, <<"U","S","D">>>>,
    <<<<"u","s"," ","d","o","l","l","a","r">>, <<"U","S","D">>>>,
    <<<<"u","s"," ","d","o","l","l","a","r","s">>, <<"U","S","D">>>>,
    <<<<"a","u","s","t","r","a","l","i","a","n"," ","d","o","l","l","a","r","s">>, <<"A","U","D">>>>,
    <<<<"a","u","d"," ","a","u","s","t","r","a","l","i","a","n">>, <<"A","U","D">>>>,
    <<<<"a","u","s","t","r","a","l","i","a","n"," ","d","o","l","l","a","r">>, <<"A","U","D">>>>,
    <<<<"t","h","a","i"," ","b","a","h","t">>, <<"T","H","B">>>>,
    <<<<"b","a","h","t">>, <<"T","H","B">>>>,
    <<<<"k","o","r","e","a","n"," ","w","o","n">>, <<"K","R","W">>>>,
    <<<<"k","r","w"," ","(","k","o","r","e","a","n"," ","w","o","n",")">>, <<"K","R","W">>>>,
    <<<<"r","m","b"," ","(","c","h","i","n","e","s","e"," ","y","u","a","n",")">>, <<"C","N","Y">>>>,
    <<<<"c","h","i","n","a"," ","r","m","b">>, <<"C","N","Y">>>>,
    <<<<"c","h","i","n","e","s","e"," ","y","u","a","n">>, <<"C","N","Y">>>>,
    <<<<"y","u","a","n">>, <<"C","N","Y">>>>,
    <<<<"r","m","b">>, <<"C","N","Y">>>>,
    <<<<"i","s","r","a","e","l","i"," ","s","h","e","k","e","l","s">>, <<"I","L","S">>>>,
    <<<<"i","s","r","a","e","l","i"," ","s","h","e","k","e","l">>, <<"I","L","S">>>>,
    <<<<"i","l","s"," ","(","s","h","e","k","e","l",")">>, <<"I","L","S">>>>,
    <<<<"n","i","s"," ","(","n","e","w"," ","i","s","r","a","e","l","i"," ","s","h","e","k","e","l",")">>, <<"I","L","S">>>>,
    <<<<"n","e","w"," ","i","s","r","a","e","l","i"," ","s","h","e","k","e","l">>, <<"I","L","S">>>>,
    <<<<"i","l","s","/","n","i","s">>, <<"I","L","S">>>>,
    <<<<"s","h","e","k","e","l">>, <<"I","L","S">>>>,
    <<<<"s","h","e","k","e","l","s">>, <<"I","L","S">>>>,
    <<<<"n","i","s">>, <<"I","L","S">>>>,
    <<<<"b","r","$">>, <<"B","R","L">>>>,
    <<<<"b","r","l"," ","(","r","$",")">>, <<"B","R","L">>>>,
    <<<<"b","r","a","z","i","l","i","a","n"," ","r","e","a","l">>, <<"B","R","L">>>>,
    <<<<"a","r","g","e","n","t","i","n","e"," ","p","e","s","o">>, <<"A","R","S">>>>,
    <<<<"a","r","g","e","n","t","i","n","i","a","n"," ","p","e","s","o">>, <<"A","R","S">>>>,
    <<<<"a","r","g","e","n","t","i","n","i","a","n"," ","p","e","s","o"," ","(","a","r","s",")">>, <<"A","R","S">>>>,
    <<<<"p","e","s","o"," ","a","r","g","e","n","t","i","n","o">>, <<"A","R","S">>>>,
    <<<<"d","a","n","i","s","h"," ","k","r","o","n","e","r">>, <<"D","K","K">>>>,
    <<<<"d","a","n","i","s","h"," ","k","r","o","n","e">>, <<"D","K","K">>>>,
    <<<<"t","a","i","w","a","n","e","s","e"," ","d","o","l","l","a","r","s">>, <<"T","W","D">>>>,
    <<<<"t","a","i","w","a","n","e","s","e"," ","d","o","l","l","a","r">>, <<"T","W","D">>>>,
    <<<<"t","a","i","w","a","n"," ","d","o","l","l","a","r">>, <<"T","W","D">>>>,
    <<<<"s","i","n","g","a","p","o","r","e"," ","d","o","l","l","a","r","a">>, <<"S","G","D">>>>,
    <<<<"s","i","n","g","a","p","o","r","e"," ","d","o","l","l","a","r","s">>, <<"S","G","D">>>>,
    <<<<"p","e","s","o","s"," ","c","o","l","o","m","b","i","a","n","o","s">>, <<"C","O","P">>>>,
    <<<<"c","o","l","o","m","b","i","a","n"," ","p","e","s","o">>, <<"C","O","P">>>>,
    <<<<"c","r","o","a","t","i","a","n"," ","k","u","n","a">>, <<"H","R","K">>>>,
    <<<<"k","u","n","a">>, <<"H","R","K">>>>,
    <<<<"c","z","e","c","h"," ","c","r","o","w","n","s">>, <<"C","Z","K">>>>,
    <<<<"c","z","e","c","h"," ","c","r","o","w","n">>, <<"C","Z","K">>>>,
    <<<<"e","q","u","i","t","y">>, <<>>>>
  >>

country_mapping_lower ==
  <<
    <<<<"u","s">>, <<"U","n","i","t","e","d"," ","S","t","a","t","e","s">>>>,
    <<<<"u","s","a">>, <<"U","n","i","t","e","d"," ","S","t","a","t","e","s">>>>,
    <<<<"u",".","s",".">>, <<"U","n","i","t","e","d"," ","S","t","a","t","e","s">>>>,
    <<<<"u",".","s",".","a",".">>, <<"U","n","i","t","e","d"," ","S","t","a","t","e","s">>>>,
    <<<<"u",".","s">>, <<"U","n","i","t","e","d"," ","S","t","a","t","e","s">>>>,
    <<<<"u","n","i","t","e","d"," ","s","t","a","t","e","s">>, <<"U","n","i","t","e","d"," ","S","t","a","t","e","s">>>>,
    <<<<"u","n","i","t","e","d"," ","s","t","a","t","e","s"," ","o","f"," ","a","m","e","r","i","c","a">>, <<"U","n","i","t","e","d"," ","S","t","a","t","e","s">>>>,
    <<<<"t","h","e"," ","u","n","i","t","e","d"," ","s","t","a","t","e","s">>, <<"U","n","i","t","e","d"," ","S","t","a","t","e","s">>>>,
    <<<<"u","n","i","t","e","d"," ","s","t","a","t","e">>, <<"U","n","i","t","e","d"," ","S","t","a","t","e","s">>>>,
    <<<<"u","n","i","t","e","d"," ","s","a","t","e","s">>, <<"U","n","i","t","e","d"," ","S","t","a","t","e","s">>>>,
    <<<<"u","n","i","t","e","d"," ","s","t","a","r","e","s">>, <<"U","n","i","t","e","d"," ","S","t","a","t","e","s">>>>,
    <<<<"u","n","i","t","e","d"," ","s","t","a","t","e","d">>, <<"U","n","i","t","e","d"," ","S","t","a","t","e","s">>>>,
    <<<<"u","n","i","t","e","d"," ","s","t","a","t","e","d","s">>, <<"U","n","i","t","e","d"," ","S","t","a","t","e","s">>>>,
    <<<<"u","n","i","t","e","d"," ","s","t","a","t","e","e","s">>, <<"U","n","i","t","e","d"," ","S","t","a","t","e","s">>>>,
    <<<<"u","n","i","t","e","d"," ","s","t","a","t","e","a">>, <<"U","n","i","t","e","d"," ","S","t","a","t","e","s">>>>,
    <<<<"u","n","i","t","e","d"," ","s","t","a","t","e","s","p">>, <<"U","n","i","t","e","d"," ","S","t","a","t","e","s">>>>,
    <<<<"u","n","i","t","e","d"," ","s","t","a","t","e","w">>, <<"U","n","i","t","e","d"," ","S","t","a","t","e","s">>>>,
    <<<<"u","n","i","t","e","d"," ","s","t","a","t","s","s">>, <<"U","n","i","t","e","d"," ","S","t","a","t","e","s">>>>,
    <<<<"u","n","i","t","e","d"," ","s","t","a","t","t","e","s">>, <<"U","n","i","t","e","d"," ","S","t","a","t","e","s">>>>,
    <<<<"u","n","i","t","e","d"," ","s","t","a","t","u","e","s">>, <<"U","n","i","t","e","d"," ","S","t","a","t","e","s">>>>,
    <<<<"u","n","i","t","e","d"," ","s","t","a","t","u","s">>, <<"U","n","i","t","e","d"," ","S","t","a","t","e","s">>>>,
    <<<<"u","n","i","t","e","d"," ","s","t","a","t","w","s">>, <<"U","n","i","t","e","d"," ","S","t","a","t","e","s">>>>,
    <<<<"u","n","i","t","e","d"," ","s","t","t","e","s">>, <<"U","n","i","t","e","d"," ","S","t","a","t","e","s">>>>,
    <<<<"u","n","i","t","e","d","s","t","a","t","e","s">>, <<"U","n","i","t","e","d"," ","S","t","a","t","e","s">>>>,
    <<<<"u","n","i","t","e","d"," ","s","t","a","t","e"," ","o","f"," ","a","m","e","r","i","c","a">>, <<"U","n","i","t","e","d"," ","S","t","a","t","e","s">>>>,
    <<<<"u","n","i","t","e","d"," ","s","a","t","e","s"," ","o","f"," ","a","m","e","r","i","c","a">>, <<"U","n","i","t","e","d"," ","S","t","a","t","e","s">>>>,
    <<<<"u","n","i","t","e","d"," ","s","t","a","t","e","s"," ","o","f"," ","a","m","e","r","i","c","a","n">>, <<"U","n","i","t","e","d"," ","S","t","a","t","e","s">>>>,
    <<<<"u","n","i","t","e","d"," ","s","t","a","t","e","s"," ","o","f"," ","a","m","e","r","i","c","a","s">>, <<"U","n","i","t","e","d"," ","S","t","a","t","e","s">>>>,
    <<<<"u","n","i","t","e","d"," ","s","t","a","t","e","s"," ","i","s"," ","a","m","e","r","i","c","a">>, <<"U","n","i","t","e","d"," ","S","t","a","t","e","s">>>>,
    <<<<"u","n","i","t","e","s"," ","s","t","a","t","e","s">>, <<"U","n","i","t","e","d"," ","S","t","a","t","e","s">>>>,
    <<<<"u","k">>, <<"U","n","i","t","e","d"," ","K","i","n","g","d","o","m">>>>,
    <<<<"u",".","k",".">>, <<"U","n","i","t","e","d"," ","K","i","n","g","d","o","m">>>>,
    <<<<"b","r","i","t","a","i","n">>, <<"U","n","i","t","e","d"," ","K","i","n","g","d","o","m">>>>,
    <<<<"g","r","e","a","t"," ","b","r","i","t","a","i","n">>, <<"U","n","i","t","e","d"," ","K","i","n","g","d","o","m">>>>,
    <<<<"e","n","g","l","a","n","d">>, <<"U","n","i","t","e","d"," ","K","i","n","g","d","o","m">>>>,
    <<<<"s","c","o","t","l","a","n","d">>, <<"U","n","i","t","e","d"," ","K","i","n","g","d","o","m">>>>,
    <<<<"w","a","l","e","s">>, <<"U","n","i","t","e","d"," ","K","i","n","g","d","o","m">>>>,
    <<<<"n","o","r","t","h","e","r","n"," ","i","r","e","l","a","n","d">>, <<"U","n","i","t","e","d"," ","K","i","n","g","d","o","m">>>>,
    <<<<"u","n","i","t","e","d"," ","k","i","n","d","o","m">>, <<"U","n","i","t","e","d"," ","K","i","n","g","d","o","m">>>>,
    <<<<"u","n","i","t","e","d"," ","k","i","n","g","d","o","m","k">>, <<"U","n","i","t","e","d"," ","K","i","n","g","d","o","m">>>>,
    <<<<"u","a","e">>, <<"U","n","i","t","e","d"," ","A","r","a","b"," ","E","m","i","r","a","t","e","s">>>>,
    <<<<"u",".","a",".","e",".">>, <<"U","n","i","t","e","d"," ","A","r","a","b"," ","E","m","i","r","a","t","e","s">>>>
  >>

-----------------------------------------------------------------------------
(* Stages 7 to 9: the canonical text of one cell, and the column stages *)

\* .str.strip().str.upper(), then .replace(currency_mapping) (exact match)
CurrencyValue(c) ==
  LET u == StrUpper(StrStrip(c))
  IN  IF IsStr(u) /\ HasKey(currency_mapping, u.str)
      THEN Str(Get(currency_mapping, u.str, u.str))
      ELSE u

\* (mutant) the alias is looked up without lower-casing the text
OtherCurrencyValueCaseSensitive(c) ==
  LET x == StrStrip(c)
  IN  IF ~IsNaN(x) /\ Strip(AsStr(x)) # <<>>
      THEN Str(Get(other_currency_mapping_lower,
                   Strip(AsStr(x)), Upper(Strip(AsStr(x)))))
      ELSE x

\* .str.strip(), then the lambda: the alias of the lower-cased text, else
\* the upper-cased text; a NaN or empty cell is returned as it is
OtherCurrencyValue(c) ==
  LET x == StrStrip(c)
  IN  IF ~IsNaN(x) /\ Strip(AsStr(x)) # <<>>
      THEN Str(Get(other_currency_mapping_lower,
                   Strip(Lower(AsStr(x))), Upper(Strip(AsStr(x)))))
      ELSE x

\* (mutant) dict.get without a default: a country that is no alias is lost
CountryValueNoDefault(c) ==
  LET x == StrCollapseWs(StrStrip(c))
  IN  IF ~IsNaN(x) /\ Strip(AsStr(x)) # <<>>
      THEN IF HasKey(country_mapping_lower, Strip(Lower(AsStr(x))))
           THEN Str(Get(country_mapping_lower, Strip(Lower(AsStr(x))), <<>>))
           ELSE NaN
      ELSE x

\* (mutant) inner whitespace is left as it is
CountryValueNoCollapse(c) ==
  LET x == StrStrip(c)
  IN  IF ~IsNaN(x) /\ Strip(AsStr(x)) # <<>>
      THEN Str(Get(country_mapping_lower,
                   Strip(Lower(AsStr(x))), Title(Strip(AsStr(x)))))
      ELSE x

\* .str.strip().str.replace(r'\s+', ' '), then the lambda: the alias of the
\* lower-cased text, else the title-cased text; NaN or empty as it is
CountryValue(c) ==
  LET x == StrCollapseWs(StrStrip(c))
  IN  IF ~IsNaN(x) /\ Strip(AsStr(x)) # <<>>
      THEN Str(Get(country_mapping_lower,
                   Strip(Lower(AsStr(x))), Title(Strip(AsStr(x)))))
      ELSE x

StandardizeCurrency(T) ==
  IF HasCol(T, currency_col)
  THEN SetColumn(T, currency_col,
                 [r \in DOMAIN T.rows |-> CurrencyValue(Column(T, currency_col)[r])])
  ELSE T

StandardizeOtherCurrency(T) ==
  IF HasCol(T, other_currency_col)
  THEN SetColumn(T, other_currency_col,
                 [r \in DOMAIN T.rows |->
                    OtherCurrencyValue(Column(T, other_currency_col)[r])])
  ELSE T

StandardizeCountry(T) ==
  IF HasCol(T, country_col)
  THEN SetColumn(T, country_col,
                 [r \in DOMAIN T.rows |-> CountryValue(Column(T, country_col)[r])])
  ELSE T

\* (mutant) duplicates dropped only after the salary and bonus were coerced
StageOrderDedupLate ==
  <<"lower", "salary", "bonus", "dedup", "required", "outliers",
    "currency", "other", "country">>

\* the stages of clean_dataset in the order of the source text
StageOrder ==
  <<"dedup", "lower", "salary", "bonus", "required", "outliers",
    "currency", "other", "country">>

\* what one stage does to the table
ApplyStage(stage, T) ==
  CASE stage = "dedup"    -> DropDuplicates(T)
    [] stage = "lower"    -> LowerColumns(T)
    [] stage = "salary"   -> SalaryToNumeric(T)
    [] stage = "bonus"    -> BonusFillna(T)
    [] stage = "required" -> RequiredFields(T)
    [] stage = "outliers" -> RemoveOutliers(T)
    [] stage = "currency" -> StandardizeCurrency(T)
    [] stage = "other"    -> StandardizeOtherCurrency(T)
    [] stage = "country"  -> StandardizeCountry(T)

\* the position after a stage: the next stage, or the return of clean_dataset
AfterStage(stage) ==
  LET i == IndexOf(StageOrder, stage)
  IN  IF i < Len(StageOrder) THEN StageOrder[i + 1] ELSE "cleaned"

-----------------------------------------------------------------------------
(* __main__: the partition by currency and the files *)

\* the cells c of the currency column with pd.notna(c) and c != ''
CurrencySet(T) ==
  {c.str : c \in {x \in Range(Column(T, currency_col)) : IsStr(x) /\ x.str # <<>>}}

\* sorted(...)
RECURSIVE SortTexts(_)
SortTexts(S) ==
  IF S = {} THEN <<>>
  ELSE LET m == CHOOSE x \in S : \A y \in S \ {x} : TextLess(x, y)
       IN  <<m>> \o SortTexts(S \ {m})

\* cleaned_df[cleaned_df[currency_column] == currency]
CurrencyRows(T, currency) ==
  FilterRows(T, [r \in DOMAIN T.rows |-> Column(T, currency_col)[r] = Str(currency)])

\* currency.replace('/', '_').replace('\\', '_')
SafeName(currency) == ReplaceChar(ReplaceChar(currency, "/", "_"), "\\", "_")

\* f'cleaned_data_{name}.csv'
OutputFile(name) ==
  <<"c","l","e","a","n","e","d","_","d","a","t","a","_">> \o name
  \o <<".","c","s","v">>

AllFile == OutputFile(<<"a","l","l">>)

\* to_csv writes NaN as an empty field and a number in decimal digits
CsvField(c) == IF IsNaN(c) THEN <<>> ELSE AsStr(c)

ToCsv(T) ==
  [T EXCEPT !.rows =
     [r \in DOMAIN T.rows |-> [i \in DOMAIN T.rows[r] |-> CsvField(T.rows[r][i])]]]

\* read_csv: an empty field is NaN; a column whose other fields are all
\* integer literals is numeric, any other column holds text
NumericColumn(F, i) ==
  \A r \in DOMAIN F.rows : F.rows[r][i] = <<>> \/ IsNum(ToNumeric(F.rows[r][i]))

ReadField(F, r, i) ==
  IF F.rows[r][i] = <<>> THEN NaN
  ELSE IF NumericColumn(F, i) THEN ToNumeric(F.rows[r][i])
  ELSE Str(F.rows[r][i])

ReadCsv(F) ==
  [F EXCEPT !.rows =
     [r \in DOMAIN F.rows |-> [i \in DOMAIN F.rows[r] |-> ReadField(F, r, i)]]]

-----------------------------------------------------------------------------
(* Inputs *)

\* one record of data.csv, its fields in the order of Fields
Rec(age, job, salary, currency, other, country, bonus) ==
  <<age, job, salary, currency, other, country, bonus>>

BaseRow ==
  Rec(<<"3","0">>, <<"d","e","v">>, <<"5","0">>, <<"U","S","D">>, <<"x","y">>,
      <<"U","S">>, <<>>)

FieldIdx(f) == IndexOf(Fields, f)

With(row, f, text) == [row EXCEPT ![FieldIdx(f)] = text]

\* the records input tables are drawn from: the base record and records
\* that differ from it in one field
RowDomain ==
  {BaseRow}
  \cup {With(BaseRow, "salary", t) :
          t \in {<<"5",",","0">>, <<"9","0">>, <<"-","5">>, <<"0">>, <<"x">>, <<>>}}
  \cup {With(BaseRow, "currency", t) :
          t \in {<<"u","s">>, <<"R","m","b">>, <<"A","/","B">>, <<"A","_","B">>, <<>>}}
  \cup {With(BaseRow, "other", t) :
          t \in {<<"R","m","b">>, <<" ","r","m","b"," ">>, <<>>,
                 <<"e","q","u","i","t","y">>,
                 <<"C","h","i","n","e","s","e"," ","Y","u","a","n">>}}
  \cup {With(BaseRow, "country", t) :
          t \in {<<" ","u","s"," ">>, <<"u",".","s",".">>, <<"n"," "," ","z">>, <<>>}}
  \cup {With(BaseRow, "age", <<" ">>), With(BaseRow, "job", <<>>)}
  \cup {With(BaseRow, "bonus", t) : t \in {<<"a","b","c">>, <<"5">>}}

\* the records of the tables with a column left out
SmallRowDomain ==
  {BaseRow, With(BaseRow, "salary", <<"-","5">>), With(BaseRow, "country", <<>>),
   With(BaseRow, "bonus", <<"a","b","c">>), With(BaseRow, "other", <<>>)}

\* the records of the longer tables
CoreRowDomain ==
  {BaseRow, With(BaseRow, "salary", <<"5",",","0">>),
   With(BaseRow, "salary", <<"9","0">>), With(BaseRow, "salary", <<"-","5">>),
   With(BaseRow, "country", <<" ","u","s"," ">>)}

SeqsUpTo(S, n) == UNION {[1..m -> S] : m \in 0..n}

\* the header of the survey export, and the headers with one column left out
FullHeader == [i \in DOMAIN Fields |-> RawLabels[Fields[i]]]

Without(s, i) == [j \in 1..(Len(s) - 1) |-> IF j < i THEN s[j] ELSE s[j + 1]]

\* twelve distinct valid records: ten salaries 10..19, one of 200, one of 1000
TrimRows ==
  [i \in 1..12 |->
     With(BaseRow, "salary",
          IF i <= 10 THEN IntToText(9 + i)
          ELSE IF i = 11 THEN IntToText(200) ELSE IntToText(1000))]

\* n distinct valid records, 2 <= n <= 11: the salaries 10, 11, ... and one
\* of 1000, the largest deviation from the mean n records can show
SmallSample(n) == SubSeq(TrimRows, 1, n - 1) \o <<TrimRows[12]>>

\* the six records of the end-to-end scenario, salaries in units of 1000
\* (mean and deviation scale with the salaries, so the outcome of the
\* three-sigma test is that of 50000 and 3,000,000): a duplicated record,
\* a salary of -5, an empty country, and valid salaries 50 and 3000
ScenarioRows ==
  <<With(BaseRow, "salary", <<"7","0">>),
    BaseRow,
    With(BaseRow, "salary", <<"7","0">>),
    With(BaseRow, "salary", <<"-","5">>),
    With(BaseRow, "country", <<>>),
    With(BaseRow, "salary", <<"3","0","0","0">>)>>

InputFiles ==
  {[cols |-> FullHeader, rows |-> rows] : rows \in SeqsUpTo(RowDomain, MaxRows)}
  \cup {[cols |-> Without(FullHeader, i),
         rows |-> [r \in DOMAIN rows |-> Without(rows[r], i)]] :
          i \in DOMAIN Fields, rows \in SeqsUpTo(SmallRowDomain, MaxRows)}
  \cup {[cols |-> FullHeader, rows |-> rows] :
          rows \in SeqsUpTo(CoreRowDomain, MaxRows + 2)}
  \cup {[cols |-> FullHeader, rows |-> TrimRows]}
  \cup {[cols |-> FullHeader, rows |-> SmallSample(n)] : n \in 2..11}
  \cup {[cols |-> FullHeader, rows |-> ScenarioRows]}

\* the characters free text is drawn from
TextAlphabet == {"u", "S", ".", " ", "\t", "/"}

\* named texts of the canonicalizer claims
NamedTexts ==
  {<<" ","u","s"," ">>, <<"U","S">>, <<"u",".","s",".">>, <<"R","M","B">>,
   <<"r","m","b">>, <<" ","R","m","b","\t">>,
   <<"c","h","i","n","e","s","e"," ","y","u","a","n">>,
   <<"C","H","I","N","E","S","E"," ","Y","u","a","n">>,
   <<"p","o","u","n","d","s">>, <<"n","e","w"," ","\t","z","E","a","l","a","n","d">>,
   <<"e","q","u","i","t","y">>}

Texts == SeqsUpTo(TextAlphabet, MaxTextLen) \cup NamedTexts

-----------------------------------------------------------------------------
(* The pipeline: clean_dataset followed by __main__ *)

NoFiles == [n \in {} |-> <<>>]
NoCounts == [dup |-> 0, req |-> 0, out |-> 0]
NoText == [in |-> NaN, done |-> FALSE, currency |-> NaN, other |-> NaN, country |-> NaN]
EmptyTable == [cols |-> <<>>, rows |-> <<>>]

\* the analysis session before the first choice: SalaryAnalytics.__init__,
\* no report written, no call made
None == [none |-> TRUE]
NoPath == <<>>
NewAnalytics == [current_df |-> None, current_currency |-> None, last_result |-> None]
NoReports == [p \in {} |-> None]
NoCall == [n |-> 0, func |-> "", selected |-> None, outcome |-> "", saved |-> NoPath]

Init ==
  /\ pc = "load"
  /\ run = 1
  /\ data \in InputFiles
  /\ df = EmptyTable
  /\ removed = NoCounts
  /\ currencies = <<>>
  /\ k = 0
  /\ files = NoFiles
  /\ failed = {}
  /\ txt = NoText
  /\ analytics = NewAnalytics
  /\ reports = NoReports
  /\ clock = 0
  /\ call = NoCall

\* df = pd.read_csv(file_path)
Load ==
  /\ pc = "load"
  /\ df' = ReadCsv(data)
  /\ removed' = NoCounts
  /\ pc' = StageOrder[1]
  /\ UNCHANGED <<run, data, currencies, k, files, failed, txt, session>>

\* Series.str exists for a column of text only (dtype object): read_csv
\* gives a column with no text in any record a numeric dtype, and a file
\* without records columns of dtype object; the filters keep the dtype
HasStrAccessor(F, label) ==
  \/ Len(F.rows) = 0
  \/ ~NumericColumn(F, ColIdx(LowerColumns(F), label))

\* the column whose .str accessor a stage uses
StrColumn(stage) ==
  CASE stage = "currency" -> currency_col
    [] stage = "other" -> other_currency_col
    [] stage = "country" -> country_col

\* the stage raises AttributeError: its column exists and holds no text
Raises(stage) ==
  /\ stage \in {"currency", "other", "country"}
  /\ HasCol(df, StrColumn(stage))
  /\ ~HasStrAccessor(data, StrColumn(stage))

\* (mutant) the required-field count covers the salary filter only
CountSalaryOnly(stage, before, after) ==
  CASE stage = "dedup" -> [removed EXCEPT !.dup = Len(before.rows) - Len(after.rows)]
    [] stage = "required" ->
         [removed EXCEPT !.req = Len(before.rows)
                                  - Len(RequiredField(before, salary_col).rows)]
    [] stage = "outliers" /\ HasCol(before, salary_col) ->
         [removed EXCEPT !.out = Len(before.rows) - Len(after.rows)]
    [] OTHER -> removed

\* the count a stage prints
Count(stage, before, after) ==
  CASE stage = "dedup" -> [removed EXCEPT !.dup = Len(before.rows) - Len(after.rows)]
    [] stage = "required" -> [removed EXCEPT !.req = Len(before.rows) - Len(after.rows)]
    [] stage = "outliers" /\ HasCol(before, salary_col) ->
         [removed EXCEPT !.out = Len(before.rows) - Len(after.rows)]
    [] OTHER -> removed

Stage(stage) ==
  /\ pc = stage
  /\ ~Raises(stage)
  /\ df' = ApplyStage(stage, df)
  /\ removed' = Count(stage, df, ApplyStage(stage, df))
  /\ pc' = AfterStage(stage)
  /\ UNCHANGED <<run, data, currencies, k, files, failed, txt, session>>

Deduplicate == Stage("dedup")
LowerCaseLabels == Stage("lower")
ParseSalary == Stage("salary")
DefaultBonus == Stage("bonus")
EnforceRequired == Stage("required")
TrimOutliers == Stage("outliers")
CanonCurrency == Stage("currency")
CanonOtherCurrency == Stage("other")
CanonCountry == Stage("country")

\* .str on a column without text: clean_dataset raises AttributeError, which
\* nothing catches, and the script ends with the traceback
StrAccessorRaises ==
  /\ Raises(pc)
  /\ pc' = "raised"
  /\ UNCHANGED <<run, data, df, removed, currencies, k, files, failed, txt, session>>

\* __main__ after clean_dataset returned: the list of currencies, or nothing
\* to save when the table has no currency column
ListCurrencies ==
  /\ pc = "cleaned"
  /\ IF HasCol(df, currency_col)
     THEN /\ currencies' = SortTexts(CurrencySet(df))
          /\ pc' = "save"
     ELSE /\ currencies' = <<>>
          /\ pc' = "done"
  /\ k' = 0
  /\ UNCHANGED <<run, data, df, removed, files, failed, txt, session>>

WriteFile(name, T) == (name :> ToCsv(T)) @@ files

\* one iteration of the loop: the partition of currencies[k + 1] is written
SaveCurrency ==
  /\ pc = "save"
  /\ k < Len(currencies)
  /\ files' = WriteFile(OutputFile(SafeName(currencies[k + 1])),
                        CurrencyRows(df, currencies[k + 1]))
  /\ k' = k + 1
  /\ UNCHANGED <<pc, run, data, df, removed, currencies, failed, txt, session>>

\* to_csv raises (disk full, no permission, ...): nothing catches it, the
\* script ends with the traceback
SaveCurrencyFails ==
  /\ pc = "save"
  /\ k < Len(currencies)
  /\ failed' = failed \cup {OutputFile(SafeName(currencies[k + 1]))}
  /\ pc' = "aborted"
  /\ UNCHANGED <<run, data, df, removed, currencies, k, files, txt, session>>

\* after the loop: the complete cleaned table
SaveAll ==
  /\ pc = "save"
  /\ k = Len(currencies)
  /\ files' = WriteFile(AllFile, df)
  /\ pc' = "done"
  /\ UNCHANGED <<run, data, df, removed, currencies, k, failed, txt, session>>

SaveAllFails ==
  /\ pc = "save"
  /\ k = Len(currencies)
  /\ failed' = failed \cup {AllFile}
  /\ pc' = "aborted"
  /\ UNCHANGED <<run, data, df, removed, currencies, k, files, txt, session>>

\* the script is run again with the complete cleaned table as its data.csv
RunAgain ==
  /\ pc = "done"
  /\ run = 1
  /\ AllFile \in DOMAIN files
  /\ data' = files[AllFile]
  /\ run' = 2
  /\ pc' = "load"
  /\ df' = EmptyTable
  /\ removed' = NoCounts
  /\ currencies' = <<>>
  /\ k' = 0
  /\ UNCHANGED <<files, failed, txt, session>>

Next ==
  \/ Load
  \/ Deduplicate
  \/ LowerCaseLabels
  \/ ParseSalary
  \/ DefaultBonus
  \/ EnforceRequired
  \/ TrimOutliers
  \/ CanonCurrency
  \/ CanonOtherCurrency
  \/ CanonCountry
  \/ StrAccessorRaises
  \/ ListCurrencies
  \/ SaveCurrency
  \/ SaveCurrencyFails
  \/ SaveAll
  \/ SaveAllFails
  \/ RunAgain

Spec == Init /\ [][Next]_vars

-----------------------------------------------------------------------------
(* The canonicalizers applied to free text *)

InitText ==
  /\ pc = "text"
  /\ run = 1
  /\ data = EmptyTable
  /\ df = EmptyTable
  /\ removed = NoCounts
  /\ currencies = <<>>
  /\ k = 0
  /\ files = NoFiles
  /\ failed = {}
  /\ txt \in {[NoText EXCEPT !.in = c] : c \in {Str(t) : t \in Texts} \cup {NaN}}
  /\ analytics = NewAnalytics
  /\ reports = NoReports
  /\ clock = 0
  /\ call = NoCall

\* the three column lambdas applied to the same cell
CanonicalizeText ==
  /\ pc = "text"
  /\ ~txt.done
  /\ txt' = [txt EXCEPT !.done = TRUE,
                        !.currency = CurrencyValue(txt.in),
                        !.other = OtherCurrencyValue(txt.in),
                        !.country = CountryValue(txt.in)]
  /\ UNCHANGED <<pc, run, data, df, removed, currencies, k, files, failed, session>>

NextText == CanonicalizeText

SpecText == InitText /\ [][NextText]_vars

-----------------------------------------------------------------------------
(* Analytics.py: the SalaryAnalytics session over the files Cleanup.py saved *)

\* An amount of money is an integer number of 1/RateScale units, so that an
\* exchange rate with five decimals is the integer rate * RateScale
RateScale == 100000

\* EXCHANGE_RATES, times RateScale
EXCHANGE_RATES ==
  <<<<<<"U", "S", "D">>, 100000>>,
    <<<<"E", "U", "R">>, 116400>>,
    <<<<"G", "B", "P">>, 134300>>,
    <<<<"C", "A", "D">>, 72000>>,
    <<<<"A", "U", "D", "_", "N", "Z", "D">>, 66800>>,
    <<<<"I", "N", "R">>, 1110>>,
    <<<<"P", "H", "P">>, 1750>>,
    <<<<"B", "R", "L">>, 20000>>,
    <<<<"I", "L", "S">>, 27400>>,
    <<<<"P", "L", "N">>, 25000>>,
    <<<<"S", "G", "D">>, 77600>>,
    <<<<"M", "Y", "R">>, 24700>>,
    <<<<"C", "N", "Y">>, 14300>>,
    <<<<"C", "H", "F">>, 125000>>,
    <<<<"J", "P", "Y">>, 600>>,
    <<<<"H", "K", "D">>, 12800>>,
    <<<<"S", "E", "K">>, 9500>>,
    <<<<"Z", "A", "R">>, 5600>>,
    <<<<"N", "O", "K">>, 9900>>,
    <<<<"T", "Z", "S">>, 43>>>>

\* COUNTRY_CURRENCY_MAP, times RateScale
COUNTRY_CURRENCY_MAP ==
  <<<<<<"I", "n", "d", "i", "a">>, 1110>>,
    <<<<"P", "h", "i", "l", "i", "p", "p", "i", "n", "e", "s">>, 1750>>,
    <<<<"B", "r", "a", "z", "i", "l">>, 20000>>,
    <<<<"I", "s", "r", "a", "e", "l">>, 27400>>,
    <<<<"P", "o", "l", "a", "n", "d">>, 25000>>,
    <<<<"S", "i", "n", "g", "a", "p", "o", "r", "e">>, 77600>>,
    <<<<"M", "a", "l", "a", "y", "s", "i", "a">>, 24700>>,
    <<<<"C", "h", "i", "n", "a">>, 14300>>,
    <<<<"T", "a", "n", "z", "a", "n", "i", "a">>, 43>>>>

ALL == <<"A","L","L">>
OtherCode == <<"O","T","H","E","R">>

\* the default 1.0 of the two lookups
UnitRate == 1 * RateScale

\* a key of a rate table is a text; a NaN or a number is no key
RateOf(table, c) == IF IsStr(c) THEN Get(table, c.str, UnitRate) ELSE UnitRate

\* _get_exchange_rate(row)
GetExchangeRate(T, row) ==
  IF Cell(T, row, currency_col) = Str(OtherCode)
  THEN RateOf(COUNTRY_CURRENCY_MAP, Cell(T, row, country_col))
  ELSE RateOf(EXCHANGE_RATES, Cell(T, row, currency_col))

\* value * rate of one cell; NaN where the cell holds no number
Amount(c, rate) == IF IsNum(c) THEN Num(c.num * rate) ELSE NaN

\* df[SALARY_COL]: the salaries as they are in the file
RawSalaries(T) ==
  [r \in DOMAIN T.rows |-> Amount(Cell(T, T.rows[r], salary_col), UnitRate)]

\* df.apply(lambda row: row[SALARY_COL] * self._get_exchange_rate(row), axis=1)
SalariesUsd(T) ==
  [r \in DOMAIN T.rows |->
     Amount(Cell(T, T.rows[r], salary_col), GetExchangeRate(T, T.rows[r]))]

\* a row-wise apply reads row[COUNTRY_COL] for a record of currency OTHER
\* and raises KeyError when the table has no such column
RateLookupRaises(T) ==
  /\ ~HasCol(T, country_col)
  /\ \E r \in DOMAIN T.rows : Cell(T, T.rows[r], currency_col) = Str(OtherCode)

\* the order of group keys and of values
CellLess(a, b) ==
  IF IsNum(a) /\ IsNum(b) THEN a.num < b.num
  ELSE IF IsNum(a) \/ IsNum(b) THEN IsNum(a)
  ELSE TextLess(a.str, b.str)

RECURSIVE SortCells(_)
SortCells(S) ==
  IF S = {} THEN <<>>
  ELSE LET m == CHOOSE x \in S : \A y \in S \ {x} : CellLess(x, y)
       IN  <<m>> \o SortCells(S \ {m})

RECURSIVE Insert(_, _)
Insert(x, s) ==
  IF s = <<>> THEN <<x>>
  ELSE IF x <= Head(s) THEN <<x>> \o s
  ELSE <<Head(s)>> \o Insert(x, Tail(s))

RECURSIVE SortInts(_)
SortInts(xs) == IF xs = <<>> THEN <<>> ELSE Insert(Head(xs), SortInts(Tail(xs)))

\* the amounts of a group that are numbers, in ascending order (a NaN is
\* left out of every statistic)
Present(xs) ==
  LET nums == SelectSeq(xs, IsNum)
  IN  SortInts([i \in DOMAIN nums |-> nums[i].num])

\* twice the median of a sorted sequence (the median of an even number of
\* values is the mean of the two in the middle)
Median2(s) ==
  IF s = <<>> THEN NaN
  ELSE IF Len(s) % 2 = 1 THEN Num(2 * s[(Len(s) + 1) \div 2])
  ELSE Num(s[Len(s) \div 2] + s[Len(s) \div 2 + 1])

\* .agg([...]) of one group.  The mean is kept exact as the pair of total
\* and count, the median as twice its value; the standard deviation and the
\* rounding to two decimals are functions of the same amounts and are not
\* carried along.
Agg(xs) ==
  LET s == Present(xs)
  IN  [count |-> Len(s), total |-> SumSeq(s), median2 |-> Median2(s),
       min |-> IF s = <<>> THEN NaN ELSE Num(s[1]),
       max |-> IF s = <<>> THEN NaN ELSE Num(s[Len(s)])]

\* df.groupby(label)[values].agg(...): one entry per key that is not NaN,
\* the keys in ascending order
GroupBy(keys, values) ==
  LET ks == SortCells(Range(keys) \ {NaN})
  IN  [i \in DOMAIN ks |->
         [key |-> ks[i],
          agg |-> Agg(SelectByMask(values, [r \in DOMAIN keys |-> keys[r] = ks[i]]))]]

\* stats[stats['count'] >= n]
AtLeast(groups, n) == SelectSeq(groups, LAMBDA g : g.agg.count >= n)

\* stats.sort_values('median', ascending=False): groups of equal median keep
\* their order, a NaN median comes last
MedianGe(g, h) ==
  \/ IsNaN(h.agg.median2)
  \/ IsNum(g.agg.median2) /\ g.agg.median2.num >= h.agg.median2.num

RECURSIVE InsertByMedian(_, _)
InsertByMedian(g, s) ==
  IF s = <<>> THEN <<g>>
  ELSE IF MedianGe(g, Head(s)) THEN <<g>> \o s
  ELSE <<Head(s)>> \o InsertByMedian(g, Tail(s))

RECURSIVE ByMedianDesc(_)
ByMedianDesc(groups) ==
  IF groups = <<>> THEN <<>>
  ELSE InsertByMedian(Head(groups), ByMedianDesc(Tail(groups)))

\* .head(top_n)
TopN(groups, n) == SubSeq(groups, 1, IF Len(groups) < n THEN Len(groups) ELSE n)

USD == <<"U","S","D">>

\* the titles under which the analyses store their result
Titles ==
  [salary_benchmarking |-> <<"S","a","l","a","r","y"," ","B","e","n","c","h","m","a","r","k","i","n","g">>,
   age_salary_analysis |-> <<"A","g","e"," ","v","s"," ","S","a","l","a","r","y">>,
   geographic_analysis |-> <<"G","e","o","g","r","a","p","h","i","c"," ","A","n","a","l","y","s","i","s">>,
   cross_currency_comparison |-> <<"C","r","o","s","s","-","C","u","r","r","e","n","c","y"," ","C","o","m","p","a","r","i","s","o","n">>,
   bonus_analysis |-> <<"B","o","n","u","s"," ","A","n","a","l","y","s","i","s">>,
   summary_statistics |-> <<"S","u","m","m","a","r","y"," ","S","t","a","t","i","s","t","i","c","s">>]

\* self.last_result = (title, result): the text of the result is its
\* "Currency:" line, whether it says the amounts were converted, and the table
Result(func, currency, converted, table) ==
  [title |-> Titles[func],
   content |-> [currency |-> currency, converted |-> converted, table |-> table]]

\* what a call of an analysis function comes to
Returned(result) == [raised |-> FALSE, result |-> result]
ReturnedEarly == [raised |-> FALSE, result |-> None]
Raised == [raised |-> TRUE, result |-> None]

\* the ALL branch of the analyses that convert
ConvertsToUsd(a) ==
  a.current_currency = Str(ALL) /\ HasCol(a.current_df, currency_col)

\* salary_benchmarking(top_n=10)
salary_benchmarking(a) ==
  LET T == a.current_df
  IN  IF T = None THEN ReturnedEarly
      ELSE IF ~HasCol(T, job_col) \/ ~HasCol(T, salary_col) THEN Raised
      ELSE Returned(Result("salary_benchmarking", a.current_currency, FALSE,
             TopN(ByMedianDesc(AtLeast(GroupBy(Column(T, job_col), RawSalaries(T)),
                                       5)), 10)))

\* age_salary_analysis()
age_salary_analysis(a) ==
  LET T == a.current_df
  IN  IF T = None THEN ReturnedEarly
      ELSE IF ~HasCol(T, age_col) \/ ~HasCol(T, salary_col) THEN Raised
      ELSE IF ConvertsToUsd(a)
      THEN IF RateLookupRaises(T) THEN Raised
           ELSE Returned(Result("age_salary_analysis", Str(USD), TRUE,
                                GroupBy(Column(T, age_col), SalariesUsd(T))))
      ELSE Returned(Result("age_salary_analysis", a.current_currency, FALSE,
                           GroupBy(Column(T, age_col), RawSalaries(T))))

\* geographic_analysis(top_n=15)
geographic_analysis(a) ==
  LET T == a.current_df
  IN  IF T = None THEN ReturnedEarly
      ELSE IF ~HasCol(T, country_col) \/ ~HasCol(T, salary_col) THEN Raised
      ELSE IF ConvertsToUsd(a)
      THEN Returned(Result("geographic_analysis", Str(USD), TRUE,
             TopN(ByMedianDesc(AtLeast(GroupBy(Column(T, country_col),
                                               SalariesUsd(T)), 10)), 15)))
      ELSE Returned(Result("geographic_analysis", a.current_currency, FALSE,
             TopN(ByMedianDesc(AtLeast(GroupBy(Column(T, country_col),
                                               RawSalaries(T)), 10)), 15)))

\* os.path.join(self.data_dir, f'cleaned_data_{currency}.csv')
DataFile(currency) == IF currency = ALL THEN AllFile ELSE OutputFile(currency)

\* cross_currency_comparison: the currencies of EXCHANGE_RATES whose file
\* exists and has a salary column (any other file is reported and left out)
LoadedCurrencies(fs) ==
  SelectSeq([i \in DOMAIN EXCHANGE_RATES |-> EXCHANGE_RATES[i][1]],
            LAMBDA c : /\ OutputFile(c) \in DOMAIN fs
                       /\ HasCol(ReadCsv(fs[OutputFile(c)]), salary_col))

\* pd.concat of the loaded files, as the two columns the comparison uses:
\* original_currency and salary_usd = df[SALARY_COL] * EXCHANGE_RATES[currency]
RECURSIVE Combined(_, _)
Combined(fs, cs) ==
  IF cs = <<>> THEN [keys |-> <<>>, values |-> <<>>]
  ELSE LET T    == ReadCsv(fs[OutputFile(Head(cs))])
           rate == Get(EXCHANGE_RATES, Head(cs), UnitRate)
           rest == Combined(fs, Tail(cs))
       IN  [keys   |-> [r \in DOMAIN T.rows |-> Str(Head(cs))] \o rest.keys,
            values |-> [r \in DOMAIN T.rows |->
                          Amount(Cell(T, T.rows[r], salary_col), rate)]
                       \o rest.values]

\* cross_currency_comparison()
cross_currency_comparison(a, fs) ==
  LET cs == LoadedCurrencies(fs)
      combined == Combined(fs, cs)
  IN  IF cs = <<>> THEN ReturnedEarly
      ELSE Returned(Result("cross_currency_comparison", Str(USD), TRUE,
                           ByMedianDesc(GroupBy(combined.keys, combined.values))))

\* pd.to_numeric(df[BONUS_COL], errors='coerce').fillna(0)
BonusNumeric(c) ==
  IF IsNum(c) THEN c.num
  ELSE IF IsStr(c) /\ IsNum(ToNumeric(c.str)) THEN ToNumeric(c.str).num
  ELSE 0

\* the figures of the bonus report
BonusStats(xs) ==
  LET all      == SortInts(xs)
      positive == SelectSeq(all, LAMBDA x : x > 0)
  IN  [respondents |-> Len(all), with_bonus |-> Len(positive),
       median2 |-> Median2(all), median2_positive |-> Median2(positive),
       total |-> SumSeq(all),
       max |-> IF all = <<>> THEN NaN ELSE Num(all[Len(all)])]

\* bonus_analysis()
bonus_analysis(a) ==
  LET T == a.current_df
      bonus(r) == BonusNumeric(Cell(T, T.rows[r], bonus_col))
  IN  IF T = None THEN ReturnedEarly
      ELSE IF ~HasCol(T, bonus_col) THEN ReturnedEarly
      ELSE IF ConvertsToUsd(a)
      THEN IF RateLookupRaises(T) THEN Raised
           ELSE Returned(Result("bonus_analysis", Str(USD), TRUE,
                  BonusStats([r \in DOMAIN T.rows |->
                                bonus(r) * GetExchangeRate(T, T.rows[r])])))
      ELSE Returned(Result("bonus_analysis", a.current_currency, FALSE,
                           BonusStats([r \in DOMAIN T.rows |-> bonus(r) * UnitRate])))

\* summary_statistics(): the number of records, of job titles and of
\* countries, and the statistics of the salaries as they are in the file
\* (idxmax raises on a table without records); the quartiles and the
\* standard deviation are functions of the same salaries and are not
\* carried along
summary_statistics(a) ==
  LET T == a.current_df
  IN  IF T = None THEN ReturnedEarly
      ELSE IF \/ ~HasCol(T, job_col) \/ ~HasCol(T, country_col)
              \/ ~HasCol(T, salary_col) \/ Present(RawSalaries(T)) = <<>>
      THEN Raised
      ELSE Returned(Result("summary_statistics", a.current_currency, FALSE,
             [records |-> Len(T.rows),
              jobs |-> Cardinality(Range(Column(T, job_col)) \ {NaN}),
              countries |-> Cardinality(Range(Column(T, country_col)) \ {NaN}),
              salary |-> Agg(RawSalaries(T))]))

AnalysisFuncs ==
  {"salary_benchmarking", "age_salary_analysis", "geographic_analysis",
   "cross_currency_comparison", "bonus_analysis", "summary_statistics"}

\* analysis_func(): the bound method called on the object and the files
Analyse(func, a, fs) ==
  CASE func = "salary_benchmarking" -> salary_benchmarking(a)
    [] func = "age_salary_analysis" -> age_salary_analysis(a)
    [] func = "geographic_analysis" -> geographic_analysis(a)
    [] func = "cross_currency_comparison" -> cross_currency_comparison(a, fs)
    [] func = "bonus_analysis" -> bonus_analysis(a)
    [] func = "summary_statistics" -> summary_statistics(a)

\* get_available_currencies(): the currencies of EXCHANGE_RATES whose file
\* exists, and ALL when the complete table exists, sorted
AvailableCurrencies(fs) ==
  SortTexts({c \in {EXCHANGE_RATES[i][1] : i \in DOMAIN EXCHANGE_RATES} :
               OutputFile(c) \in DOMAIN fs}
            \cup (IF AllFile \in DOMAIN fs THEN {ALL} ELSE {}))

\* _load_data(currency) when read_csv succeeds
LoadData(a, fs, currency) ==
  [a EXCEPT !.current_df = ReadCsv(fs[DataFile(currency)]),
            !.current_currency = Str(currency)]

\* f'{self.current_currency}' in a path or a header line
CurrencyText(c) == IF c = None THEN <<"N","o","n","e">> ELSE c.str

\* title.replace(" ", "_").replace("/", "_")
SafeTitle(title) == ReplaceChar(ReplaceChar(title, " ", "_"), "/", "_")

\* results_{current_currency}/{safe_title}_{timestamp}.txt
ReportPath(a, now) ==
  <<"r","e","s","u","l","t","s","_">> \o CurrencyText(a.current_currency)
  \o <<"/">> \o SafeTitle(a.last_result.title) \o <<"_">> \o NatToText(now)
  \o <<".","t","x","t">>

\* what save_last_result writes: the header line "TITLE - currency", the
\* time, and the content of last_result
ReportFile(a, now) ==
  [title |-> Upper(a.last_result.title),
   currency |-> CurrencyText(a.current_currency),
   generated |-> now,
   content |-> a.last_result.content]

\* age_salary_{current_currency}.png and the title of the chart
ChartPath(a) ==
  <<"a","g","e","_","s","a","l","a","r","y","_">>
  \o CurrencyText(a.current_currency) \o <<".","p","n","g">>

ChartFile(result) ==
  [chart |-> result.content.table,
   currency |-> result.content.currency,
   converted |-> result.content.converted]


\* the menu choices of one session
MaxCalls == 2

\* the analyses that main() runs without selecting a dataset
NeedsNoDataset == {"cross_currency_comparison"}

\* main(): a choice of the menu calls run_analysis_with_dataset, which
\* selects a dataset if the analysis needs one
Choose(func) ==
  /\ pc = "menu"
  /\ call.n < MaxCalls
  /\ call' = [n |-> call.n + 1, func |-> func, selected |-> None,
              outcome |-> "", saved |-> NoPath]
  /\ pc' = IF func \in NeedsNoDataset THEN "analyse" ELSE "select"
  /\ UNCHANGED <<run, data, df, removed, currencies, k, files, failed, txt,
                 analytics, reports, clock>>

Choice1 == Choose("salary_benchmarking")
Choice2 == Choose("age_salary_analysis")
Choice3 == Choose("geographic_analysis")
Choice4 == Choose("cross_currency_comparison")
Choice5 == Choose("bonus_analysis")
Choice6 == Choose("summary_statistics")

\* select_dataset(): a number of the list is typed and read_csv succeeds
SelectDataset ==
  /\ pc = "select"
  /\ \E choice \in 1..Len(AvailableCurrencies(files)) :
       /\ analytics' = LoadData(analytics, files, AvailableCurrencies(files)[choice])
       /\ call' = [call EXCEPT !.selected = Str(AvailableCurrencies(files)[choice])]
  /\ pc' = "analyse"
  /\ UNCHANGED <<run, data, df, removed, currencies, k, files, failed, txt,
                 reports, clock>>

\* select_dataset() returns False: no dataset found, 0 or no valid number
\* typed, or read_csv raised in _load_data; run_analysis_with_dataset returns
SelectNothing ==
  /\ pc = "select"
  /\ call' = [call EXCEPT !.outcome = "no dataset"]
  /\ pc' = "menu"
  /\ UNCHANGED <<run, data, df, removed, currencies, k, files, failed, txt,
                 analytics, reports, clock>>

\* analysis_func() inside try/except: an exception ends the call; a result
\* becomes last_result (and the age analysis writes its chart unless savefig
\* raises); an early return leaves last_result as it was
RunAnalysis ==
  /\ pc = "analyse"
  /\ LET out == Analyse(call.func, analytics, files)
     IN  IF out.raised
         THEN /\ call' = [call EXCEPT !.outcome = "raised"]
              /\ pc' = "menu"
              /\ UNCHANGED <<analytics, reports>>
         ELSE IF out.result = None
         THEN /\ call' = [call EXCEPT !.outcome = "returned early"]
              /\ pc' = "save"
              /\ UNCHANGED <<analytics, reports>>
         ELSE /\ analytics' = [analytics EXCEPT !.last_result = out.result]
              /\ call' = [call EXCEPT !.outcome = "result"]
              /\ pc' = "save"
              /\ \E savefig \in BOOLEAN :
                   reports' = IF call.func = "age_salary_analysis" /\ savefig
                              THEN (ChartPath(analytics) :> ChartFile(out.result))
                                   @@ reports
                              ELSE reports
  /\ UNCHANGED <<run, data, df, removed, currencies, k, files, failed, txt, clock>>

\* save_last_result(): nothing to save, or the folder or the file cannot be
\* written, or the report is written under the current currency; the time
\* of the file name is later than that of any earlier report
SaveLastResult ==
  /\ pc = "save"
  /\ \E written \in BOOLEAN :
       IF analytics.last_result # None /\ written
       THEN /\ reports' = (ReportPath(analytics, clock + 1)
                           :> ReportFile(analytics, clock + 1)) @@ reports
            /\ call' = [call EXCEPT !.saved = ReportPath(analytics, clock + 1)]
            /\ clock' = clock + 1
       ELSE UNCHANGED <<reports, call, clock>>
  /\ pc' = "menu"
  /\ UNCHANGED <<run, data, df, removed, currencies, k, files, failed, txt,
                 analytics>>

\* 'q'
Quit ==
  /\ pc = "menu"
  /\ pc' = "quit"
  /\ UNCHANGED <<run, data, df, removed, currencies, k, files, failed, txt, session>>

NextAnalytics ==
  \/ Choice1
  \/ Choice2
  \/ Choice3
  \/ Choice4
  \/ Choice5
  \/ Choice6
  \/ SelectDataset
  \/ SelectNothing
  \/ RunAnalysis
  \/ SaveLastResult
  \/ Quit

\* clean_dataset(file_path) as a function of the input file
RECURSIVE StagesFrom(_, _)
StagesFrom(T, i) ==
  IF i > Len(StageOrder) THEN T
  ELSE StagesFrom(ApplyStage(StageOrder[i], T), i + 1)

CleanDataset(F) == StagesFrom(ReadCsv(F), 1)

\* the files __main__ leaves for the cleaned table T: one per currency (of
\* two currencies with the same file name the later of the sorted list
\* stays) and the complete table
DataDir(T) ==
  IF ~HasCol(T, currency_col) THEN NoFiles
  ELSE LET cs == SortTexts(CurrencySet(T))
           name(i) == OutputFile(SafeName(cs[i]))
           last(n) == CHOOSE i \in DOMAIN cs :
                        name(i) = n /\ \A j \in DOMAIN cs : name(j) = n => j <= i
       IN  [n \in {name(i) : i \in DOMAIN cs} \cup {AllFile} |->
              IF n = AllFile THEN ToCsv(T) ELSE ToCsv(CurrencyRows(T, cs[last(n)]))]

\* The surveys of the sessions.  Twelve records of one job title: eleven
\* from India and one from Peru, in USD, EUR, an unknown code, and
\* "Other" (with and without a country of COUNTRY_CURRENCY_MAP)
SurveyCurrency(i) ==
  CASE i \in {1, 2, 3, 12} -> <<"U","S","D">>
    [] i \in {4, 5, 6} -> <<"E","U","R">>
    [] i \in {7, 8, 9, 11} -> <<"O","t","h","e","r">>
    [] i = 10 -> <<"X","Y","Z">>

BigSurvey ==
  [cols |-> FullHeader,
   rows |-> [i \in 1..12 |->
      Rec(IF i <= 6 THEN <<"3","0">> ELSE <<"4","0">>,
          <<"d","e","v">>,
          IntToText(9 + i),
          SurveyCurrency(i),
          IF i \in {7, 8, 9, 11} THEN <<"I","N","R">> ELSE <<>>,
          IF i = 11 THEN <<"P","e","r","u">> ELSE <<"I","n","d","i","a">>,
          IF i % 2 = 1 THEN <<"5">> ELSE <<>>)]]

\* two records, in USD and in EUR
SmallSurvey ==
  [cols |-> FullHeader,
   rows |-> <<BaseRow,
              With(With(BaseRow, "currency", <<"E","U","R">>), "salary", <<"9","0">>)>>]

\* the same without the bonus column
NoBonusSurvey ==
  [cols |-> Without(FullHeader, FieldIdx("bonus")),
   rows |-> [r \in DOMAIN SmallSurvey.rows |->
               Without(SmallSurvey.rows[r], FieldIdx("bonus"))]]

\* one record in a currency that EXCHANGE_RATES does not list
OtherSurvey ==
  [cols |-> FullHeader,
   rows |-> <<With(With(BaseRow, "currency", <<"O","t","h","e","r">>), "other", <<"I","N","R">>)>>]

\* the data directories a session starts in: what Cleanup.py left for one
\* of the surveys, or an empty directory
DataDirs ==
  {DataDir(CleanDataset(F)) :
     F \in {BigSurvey, SmallSurvey, NoBonusSurvey, OtherSurvey}}
  \cup {NoFiles}

InitAnalytics ==
  /\ pc = "menu"
  /\ run = 1
  /\ data = EmptyTable
  /\ df = EmptyTable
  /\ removed = NoCounts
  /\ currencies = <<>>
  /\ k = 0
  /\ files \in DataDirs
  /\ failed = {}
  /\ txt = NoText
  /\ analytics = NewAnalytics
  /\ reports = NoReports
  /\ clock = 0
  /\ call = NoCall

SpecAnalytics == InitAnalytics /\ [][NextAnalytics]_vars

-----------------------------------------------------------------------------
(* Properties *)

\* the table read from the input file of the current run
Raw == ReadCsv(data)

\* the stage order the specification states
ClaimedStages ==
  <<"dedup", "lower", "salary", "bonus", "required", "outliers",
    "currency", "other", "country">>

ClaimedPositions == <<"load">> \o ClaimedStages \o <<"cleaned">>

\* the table after the first i stages of the stated order
RECURSIVE ClaimedPrefix(_, _)
ClaimedPrefix(T, i) ==
  IF i = 0 THEN T ELSE ApplyStage(ClaimedStages[i], ClaimedPrefix(T, i - 1))

InCleaning == pc \in Range(ClaimedStages) \cup {"cleaned"}

\* the table that reaches the position pc under the stated order
Expected == ClaimedPrefix(Raw, IndexOf(ClaimedPositions, pc) - 2)

\* C1: clean_dataset runs its nine stages strictly in the stated order, each
\* on the survivors of the one before: the position only ever advances to
\* the next stage of the stated order, and at every position the table is
\* the input with exactly the earlier stages applied in that order (so the
\* duplicates are judged on the raw values and the outlier statistics are
\* taken over the validated records); a run that does not finish ends with
\* an exception, never in a stage out of order.
C1_StagesInOrder ==
  /\ [](InCleaning => df = Expected)
  /\ [][\A i \in 1..(Len(ClaimedPositions) - 1) :
          pc = ClaimedPositions[i] =>
            pc' \in {ClaimedPositions[i + 1], "raised"}]_vars

\* two records that differ only in raw text and are equal once cleaned both
\* survive the first run
C1_Witness ==
  /\ pc = "cleaned" /\ run = 1
  /\ \E i, j \in DOMAIN df.rows : i < j /\ df.rows[i] = df.rows[j]

\* the positions of the first occurrences in a sequence of rows
FirstOccurrences(rows) ==
  {i \in DOMAIN rows : \A j \in 1..(i - 1) : rows[j] # rows[i]}

\* the p-th smallest member of a set of positions
Nth(P, p) == CHOOSE i \in P : Cardinality({j \in P : j <= i}) = p

Copies(rows, row) == Cardinality({i \in DOMAIN rows : rows[i] = row})

\* C2: after the dedup stage the table holds exactly the first occurrences
\* of the raw rows in their original order: of k equal copies k - 1 are
\* removed and no row that differs from every earlier row is removed.
C2_Dedup ==
  pc = "lower" =>
    LET first == FirstOccurrences(Raw.rows)
    IN  /\ Len(df.rows) = Cardinality(first)
        /\ \A p \in DOMAIN df.rows : df.rows[p] = Raw.rows[Nth(first, p)]
        /\ \A i \in DOMAIN Raw.rows : Copies(df.rows, Raw.rows[i]) = 1
        /\ removed.dup = Len(Raw.rows) - Cardinality(first)

\* a row with three copies, and a row standing between two copies of another
C2_Witness ==
  /\ pc = "lower"
  /\ removed.dup >= 1
  /\ Len(df.rows) = 2
  /\ Len(Raw.rows) >= 3
  /\ Raw.rows[1] = Raw.rows[3] /\ Raw.rows[1] # Raw.rows[2]

\* the raw cell of a required field is valid: a salary is, with its
\* thousands separators removed, a number greater than 0; any other field
\* is present and not empty after trimming
RawFieldValid(label, c) ==
  IF label = salary_col
  THEN /\ ~IsNaN(c)
       /\ AllDigits(RemoveChar(AsStr(c), ","))
       /\ DigitsValue(RemoveChar(AsStr(c), ",")) > 0
  ELSE ~IsNaN(c) /\ Strip(AsStr(c)) # <<>>

RawRowValid(cols, row) ==
  \A i \in DOMAIN cols :
    LowerLabel(cols[i]) \in Range(required_fields)
      => RawFieldValid(LowerLabel(cols[i]), row[i])

\* the deduplicated raw records that are valid
ValidRaw ==
  LET D == DropDuplicates(Raw)
  IN  FilterRows(D, [r \in DOMAIN D.rows |-> RawRowValid(D.cols, D.rows[r])])

\* C3: after the validation stage the table holds exactly the records whose
\* required fields (of the columns that exist) are all valid, whatever their
\* optional fields hold.
C3_RequiredFields ==
  pc = "outliers" =>
    /\ df = BonusFillna(SalaryToNumeric(LowerColumns(ValidRaw)))
    /\ removed.req = Len(DropDuplicates(Raw).rows) - Len(df.rows)

\* a record was dropped and a record with empty optional fields was kept
C3_Witness ==
  /\ pc = "outliers"
  /\ removed.req > 0
  /\ \E r \in DOMAIN df.rows :
       /\ HasCol(df, other_currency_col)
       /\ IsNaN(Column(df, other_currency_col)[r])

\* the records that passed validation, as the outlier stage receives them
Validated == ClaimedPrefix(Raw, 5)

\* salary x lies within mean +/- 3 standard deviations of n salaries of sum
\* S and sum of squares Q, the lower end raised to 0; the deviation of a
\* value from the mean of a single value is 0
WithinThreeSigma(n, S, Q, x) ==
  x >= 0 /\ (n * x - S) * (n * x - S) * (n - 1) <= 9 * n * (n * Q - S * S)

\* C4: the outlier filter keeps exactly the validated records whose salary
\* is within [max(0, m - 3s), m + 3s], for every non-empty validated set,
\* a single record and equal salaries included.
C4_OutlierFilter ==
  (pc = "currency" /\ HasCol(Validated, salary_col)) =>
    LET xs == Salaries(Validated)
        n  == Len(xs)
        S  == SumSeq(xs)
        Q  == SumSeq([i \in DOMAIN xs |-> xs[i] * xs[i]])
    IN  df.rows = SelectByMask(Validated.rows,
                               [r \in DOMAIN xs |-> WithinThreeSigma(n, S, Q, xs[r])])

\* C5: a second run on the output of the first removes no row in any stage.
C5_Idempotent == run = 2 => removed = NoCounts

\* C5 as amended: a second run on the output of the first removes no row in
\* the required-field stage.
C5_RequiredIdempotent == run = 2 => removed.req = 0

\* the second run validated a table that still has rows
C5_Witness == run = 2 /\ pc = "outliers" /\ Len(df.rows) >= 2

\* the lookup key of a country: trimmed, whitespace runs collapsed, lower-cased
CountryKey(t) == Lower(CollapseWs(Strip(t)))

\* C6: the canonical country is the alias of the key when the key is in the
\* alias table and otherwise the trimmed, whitespace-collapsed text in title
\* case, which the key alone determines; a missing, empty or whitespace-only
\* cell stays missing or empty.
C6_Country ==
  (pc = "text" /\ txt.done) =>
    IF IsNaN(txt.in) THEN IsNaN(txt.country)
    ELSE IF CountryKey(txt.in.str) = <<>> THEN txt.country = Str(<<>>)
    ELSE IF HasKey(country_mapping_lower, CountryKey(txt.in.str))
         THEN txt.country = Str(Get(country_mapping_lower, CountryKey(txt.in.str), <<>>))
         ELSE /\ txt.country = Str(Title(CollapseWs(Strip(txt.in.str))))
              /\ txt.country = Str(Title(CountryKey(txt.in.str)))

UnitedStates == <<"U","n","i","t","e","d"," ","S","t","a","t","e","s">>

\* " us " became United States
C6_Witness ==
  /\ pc = "text" /\ txt.done
  /\ txt.in = Str(<<" ","u","s"," ">>)
  /\ txt.country = Str(UnitedStates)

CNY == <<"C","N","Y">>

\* RMB or chinese yuan in any letter case, surrounding whitespace ignored
IsYuan(c) ==
  /\ IsStr(c)
  /\ Lower(Strip(c.str)) \in {<<"r","m","b">>,
                              <<"c","h","i","n","e","s","e"," ","y","u","a","n">>}

\* C7: in both currency fields of the cleaned record RMB and chinese yuan
\* are stored as CNY.
C7_YuanInBothFields ==
  [][/\ (pc = "currency" /\ HasCol(df, currency_col)) =>
          \A r \in DOMAIN df.rows :
            IsYuan(Column(df, currency_col)[r])
              => Column(df, currency_col)'[r] = Str(CNY)
     /\ (pc = "other" /\ HasCol(df, other_currency_col)) =>
          \A r \in DOMAIN df.rows :
            IsYuan(Column(df, other_currency_col)[r])
              => Column(df, other_currency_col)'[r] = Str(CNY)]_vars

\* the trimmed, upper-cased text of a cell
TrimmedUpper(c) == Str(Upper(Strip(c.str)))

\* C7 as amended: in the other-currency field RMB and chinese yuan are
\* stored as CNY and a text that matches no alias of that field as its
\* trimmed upper-cased form; in the CURRENCY field the only aliases are
\* those of currency_mapping, so RMB and chinese yuan, like every other
\* text that is none of them, are stored trimmed and upper-cased.
C7_YuanInOtherField ==
  [][/\ (pc = "currency" /\ HasCol(df, currency_col)) =>
          \A r \in DOMAIN df.rows :
            LET c == Column(df, currency_col)[r]
            IN  (IsStr(c) /\ ~HasKey(currency_mapping, Upper(Strip(c.str))))
                  => Column(df, currency_col)'[r] = TrimmedUpper(c)
     /\ (pc = "other" /\ HasCol(df, other_currency_col)) =>
          \A r \in DOMAIN df.rows :
            LET c == Column(df, other_currency_col)[r]
            IN  /\ IsYuan(c) => Column(df, other_currency_col)'[r] = Str(CNY)
                /\ (/\ IsStr(c) /\ Strip(c.str) # <<>>
                    /\ ~HasKey(other_currency_mapping_lower, Lower(Strip(c.str))))
                     => Column(df, other_currency_col)'[r] = TrimmedUpper(c)]_vars

\* a cleaned table with RMB left in the CURRENCY field and another with CNY
\* in the other-currency field
C7_Witness ==
  /\ pc = "cleaned" /\ run = 1
  /\ Len(df.rows) = 2
  /\ HasCol(df, currency_col) /\ HasCol(df, other_currency_col)
  /\ Column(df, currency_col)[1] = Str(<<"R","M","B">>)
  /\ Column(df, other_currency_col)[2] = Str(CNY)

\* C8: every record of the cleaned output has a numeric BONUS, 0 where the
\* raw cell was absent or no number.
C8_BonusNumeric ==
  (pc = "cleaned" /\ HasCol(df, bonus_col)) =>
    \A r \in DOMAIN df.rows : IsNum(Column(df, bonus_col)[r])

\* the fields of the cleaned records whose currency is c, as written
PartitionOf(c) ==
  SelectByMask(ToCsv(df).rows,
               [r \in DOMAIN df.rows |-> Column(df, currency_col)[r] = Str(c)])

\* C9: when the run has saved everything, the file of each currency value
\* holds exactly the cleaned records of that currency, in order, and the
\* ALL file holds every cleaned record.
C9_Partitions ==
  (pc = "done" /\ HasCol(df, currency_col)) =>
    /\ \A c \in CurrencySet(df) :
         /\ OutputFile(SafeName(c)) \in DOMAIN files
         /\ files[OutputFile(SafeName(c))].rows = PartitionOf(c)
    /\ AllFile \in DOMAIN files
    /\ files[AllFile].rows = ToCsv(df).rows

\* the files the run was to write
FilesToWrite ==
  {OutputFile(SafeName(currencies[i])) : i \in DOMAIN currencies} \cup {AllFile}

\* C10: when one write fails, every other partition file and the ALL file
\* are still written.
C10_OtherFilesWritten ==
  (pc = "aborted" /\ run = 1) => \A f \in FilesToWrite \ failed : f \in DOMAIN files

\* the stages that only rewrite labels or cells
RewritingStages == {"lower", "salary", "bonus", "currency", "other", "country"}

\* C13: when clean_dataset returns, the number of records read equals the
\* number returned plus the three reported counts (duplicates, required
\* fields, outliers); a stage other than 1, 5 and 6 never changes the number
\* of records; and the required-field count is the single difference
\* between the records entering the loop over the fields and those leaving.
C13_RowAccounting ==
  /\ [](pc = "cleaned" =>
         Len(Raw.rows) = Len(df.rows) + removed.dup + removed.req + removed.out)
  /\ [](pc = "outliers" =>
         removed.req = Len(ClaimedPrefix(Raw, 4).rows) - Len(df.rows))
  /\ [][(pc \in RewritingStages) => Len(df'.rows) = Len(df.rows)]_vars

\* a run in which each of the three removing stages removed a record
C13_Witness ==
  /\ pc = "cleaned"
  /\ removed.dup > 0 /\ removed.req > 0 /\ removed.out > 0

\* the validated records with the three canonicalizations applied
Canonical(T) == StandardizeCountry(StandardizeOtherCurrency(StandardizeCurrency(T)))

\* C14: when between 2 and 10 records survive deduplication and validation,
\* the outlier stage removes none and the final output is exactly those
\* records (canonicalized); in the six-record scenario one duplicate copy
\* and the two invalid records are removed and the salaries 50 and 3000
\* (thousands) both survive.
C14_SmallSample ==
  /\ (pc = "currency" /\ Len(Validated.rows) \in 2..10) =>
       (df = Validated /\ removed.out = 0)
  /\ (pc = "cleaned" /\ Len(Validated.rows) \in 2..10) => df = Canonical(Validated)
  /\ (pc = "cleaned" /\ run = 1 /\ data.rows = ScenarioRows) =>
       /\ removed = [dup |-> 1, req |-> 2, out |-> 0]
       /\ Salaries(df) = <<70, 50, 3000>>

\* the scenario has been cleaned
C14_Witness ==
  /\ pc = "cleaned" /\ run = 1
  /\ data.rows = ScenarioRows
  /\ Len(df.rows) = 3

\* the per-currency files a run has written
PartitionFiles == DOMAIN files \ {AllFile}

\* C15: when the first run has saved everything, distinct currency values
\* of the cleaned table have distinct file names and there are as many
\* per-currency files as distinct currency values.
C15_DistinctFiles ==
  (pc = "done" /\ run = 1 /\ HasCol(df, currency_col)) =>
    /\ \A c, d \in CurrencySet(df) : c # d => SafeName(c) # SafeName(d)
    /\ Cardinality(PartitionFiles) = Cardinality(CurrencySet(df))

\* the canonical fields whose column the input file lacks
AbsentFields ==
  {f \in Range(Fields) : ~HasCol(LowerColumns(data), LowerLabels[f])}

\* the field a stage is about, for the stages that are about one field
StageField ==
  [salary |-> salary_col, bonus |-> bonus_col, outliers |-> salary_col,
   currency |-> currency_col, other |-> other_currency_col, country |-> country_col]

\* C12: on an input that lacks columns of canonical fields the run ends
\* without an exception, the stage of an absent field leaves the table as it
\* is, and the saving step, which skips the files per currency when the
\* currency column is absent, still saves the complete cleaned table.
C12_MissingColumns ==
  (run = 1 /\ AbsentFields # {}) =>
    /\ pc # "raised"
    /\ \A stage \in DOMAIN StageField :
         ~HasCol(df, StageField[stage]) => ApplyStage(stage, df) = df
    /\ pc = "done" => (AllFile \in DOMAIN files /\ files[AllFile] = ToCsv(df))

\* the reports that aggregate amounts of money per group or per respondent
AggregationReports ==
  {"salary_benchmarking", "age_salary_analysis", "geographic_analysis",
   "bonus_analysis"}

\* the table of a report computed over amounts multiplied by
\* rate(code, country) before any grouping
TableInUsd(func, T) ==
  CASE func = "salary_benchmarking" ->
         TopN(ByMedianDesc(AtLeast(GroupBy(Column(T, job_col), SalariesUsd(T)), 5)), 10)
    [] func = "age_salary_analysis" ->
         GroupBy(Column(T, age_col), SalariesUsd(T))
    [] func = "geographic_analysis" ->
         TopN(ByMedianDesc(AtLeast(GroupBy(Column(T, country_col), SalariesUsd(T)),
                                   10)), 15)
    [] func = "bonus_analysis" ->
         BonusStats([r \in DOMAIN T.rows |->
                       BonusNumeric(Cell(T, T.rows[r], bonus_col))
                       * GetExchangeRate(T, T.rows[r])])

\* C11: a job-title, age, country or bonus report produced on the ALL
\* dataset with a currency column says that its amounts are converted and
\* its table is computed over the amounts multiplied by rate(code, country).
C11_AllReportsConverted ==
  (/\ pc = "save"
   /\ call.outcome = "result"
   /\ call.func \in AggregationReports
   /\ call.selected = Str(ALL)
   /\ HasCol(analytics.current_df, currency_col)) =>
    /\ analytics.last_result.content.converted
    /\ analytics.last_result.content.table = TableInUsd(call.func, analytics.current_df)

\* C16: when a call of run_analysis_with_dataset has saved a report, the
\* analysis of that call produced a result, the saved content is that
\* result, and an analysis on a dataset is saved under the currency of the
\* dataset selected in the call.
C16_SavedReportIsOfThisCall ==
  (pc = "menu" /\ call.saved # NoPath) =>
    /\ call.outcome = "result"
    /\ reports[call.saved].content = analytics.last_result.content
    /\ call.func \notin NeedsNoDataset =>
         reports[call.saved].currency = CurrencyText(call.selected)

====
